---- MODULE Spec2Model ----
(***************************************************************************)
(* PRISM: the rate-limited cycle runner and the continuous monitoring      *)
(* scheduler of src/prism/utils/gradio_helpers.py.                         *)
(*                                                                         *)
(* Time is counted in hours.  A string is modelled as a sequence of        *)
(* tokens (a literal, a formatted timestamp, a newline, a body token).     *)
(***************************************************************************)
EXTENDS Integers, Sequences, FiniteSets, TLC

VARIABLES
    demo_executions,  \* the demo_executions table: rows (ip_address, last_run)
    now,              \* the wall clock / database NOW(), in hours
    log_files,        \* logs/<name>: [exists, content]
    req,              \* the foreground run_once_with_limit invocations
    crew_running,     \* module global crew_running
    crew_thread,      \* module global crew_thread (0 is None)
    ctl,              \* callers of start_crew_monitoring / stop_crew_monitoring
    loop,             \* the monitor_loop threads
    calc              \* the last call of a tool made on its own: arguments and result

vars == <<demo_executions, now, log_files, req, crew_running, crew_thread, ctl, loop, calc>>

---------------------------------------------------------------------------
\* Program constants

MAX_RUNS == 5

WINDOW_HOURS == 24

log_file_names ==
    <<"market_data_output.txt", "positions_output.txt", "thresholds_output.txt",
      "risk_calculation_output.txt", "trading_decisions_output.txt">>

LogFiles == {log_file_names[i] : i \in 1..Len(log_file_names)}

---------------------------------------------------------------------------
\* Bounds of the model

MaxLog == 6

MaxTicks == 2

TickHours == 12

NumReq == 2

IPs == {"1.2.3.4", "5.6.7.8"}

Req == 1..NumReq

NumCtl == 2

Ctl == 1..NumCtl

MaxThreads == 2

Threads == 1..MaxThreads

\* the exceptions the external orchestration call is made to raise
ExcTypes == {"RuntimeError", "TimeoutError"}

---------------------------------------------------------------------------
\* The execution log

ExecutionRecord(ip, t) == [ip_address |-> ip, last_run |-> t]

\* variant: the WHERE clause without the ip_address condition
CountInWindow_anyIp(log, ip, t) ==
    Cardinality({i \in 1..Len(log) : log[i].last_run > t - WINDOW_HOURS})

\* variant: the WHERE clause without the last_run condition
CountInWindow_allTime(log, ip, t) ==
    Cardinality({i \in 1..Len(log) : log[i].ip_address = ip})

\* SELECT COUNT(*) FROM demo_executions
\*   WHERE ip_address = ip AND last_run > NOW() - INTERVAL '24 hours'
CountInWindow(log, ip, t) ==
    Cardinality({i \in 1..Len(log) :
                    /\ log[i].ip_address = ip
                    /\ log[i].last_run > t - WINDOW_HOURS})

\* variant: one row per address, its last_run overwritten
InsertExecution_upsert(log, ip, t) ==
    IF \E i \in 1..Len(log) : log[i].ip_address = ip
    THEN [i \in 1..Len(log) |->
             IF log[i].ip_address = ip THEN ExecutionRecord(ip, t) ELSE log[i]]
    ELSE Append(log, ExecutionRecord(ip, t))

\* INSERT INTO demo_executions (ip_address, last_run) VALUES (ip, NOW())
InsertExecution(log, ip, t) == Append(log, ExecutionRecord(ip, t))

---------------------------------------------------------------------------
\* Log artifacts: update_log_timestamps

NEWLINE == "\n"

\* datetime.now().strftime("%Y-%m-%d %H:%M:%S")
strftime(t) == ToString(t)

\* f"Last run: {timestamp}\n"
timestamp_line(timestamp) == <<"Last run:", timestamp, NEWLINE>>

\* content.startswith("Last run:")
StartsWithLastRun(content) == Len(content) > 0 /\ content[1] = "Last run:"

RECURSIVE FirstNewline(_, _)
FirstNewline(content, i) ==
    IF i > Len(content) THEN 0
    ELSE IF content[i] = NEWLINE THEN i
    ELSE FirstNewline(content, i + 1)

\* lines = content.split("\n", 1); lines[1] if len(lines) > 1 else ""
RestAfterFirstLine(content) ==
    LET k == FirstNewline(content, 1)
    IN  IF k = 0 THEN <<>> ELSE SubSeq(content, k + 1, Len(content))

AbsentFile == [exists |-> FALSE, content |-> <<>>]

\* variant: the header prepended whatever the file starts with
new_content_alwaysPrepend(file, ts) ==
    IF file.exists
    THEN timestamp_line(ts) \o file.content
    ELSE timestamp_line(ts)

\* the body of the for loop for one file whose reads and writes succeed
new_content(file, ts) ==
    IF file.exists
    THEN IF StartsWithLastRun(file.content)
         THEN timestamp_line(ts) \o RestAfterFirstLine(file.content)
         ELSE timestamp_line(ts) \o file.content
    ELSE timestamp_line(ts)

\* variant: no try/except in the loop body, the first failure ends the loop
update_log_timestamps_abortOnFailure(files, ts, failing) ==
    [f \in LogFiles |->
        IF \E i \in 1..Len(log_file_names) :
               /\ log_file_names[i] \in failing
               /\ \E j \in i..Len(log_file_names) : log_file_names[j] = f
        THEN files[f]
        ELSE [exists |-> TRUE, content |-> new_content(files[f], ts)]]

\* failing is the set of files whose open/read/write raises: the except
\* clause logs a warning and the loop goes on to the next file
update_log_timestamps(files, ts, failing) ==
    [f \in LogFiles |->
        IF f \in failing THEN files[f]
        ELSE [exists |-> TRUE, content |-> new_content(files[f], ts)]]

\* the I/O failures injected into one run of the updater
FailChoices == {{}, {log_file_names[1]}}

---------------------------------------------------------------------------
\* run_once_with_limit

NoException == [type |-> "None", cause |-> "None"]

NoResult == [output |-> "None", button_text |-> <<"None", 0, 0>>, interactive |-> FALSE]

IdleReq == [pc |-> "idle", ip |-> "None", count |-> 0,
            result |-> NoResult, exc |-> NoException]

\* the dict returned when count >= MAX_RUNS
LimitReachedResult(count) ==
    [output |-> "Demo limit reached",
     button_text |-> <<"Limit Reached", count, MAX_RUNS>>,
     interactive |-> FALSE]

\* the dict returned after run_crew_cycle()
AllowedResult(count) ==
    LET new_count == count + 1
    IN  [output |-> "Cycle completed",
         button_text |-> IF new_count < MAX_RUNS
                         THEN <<"Run Cycle", new_count, MAX_RUNS>>
                         ELSE <<"Limit Reached", new_count, MAX_RUNS>>,
         interactive |-> new_count < MAX_RUNS]

\* the foreground call path is serialized: one UI action at a time
Serialized(r) == \A q \in Req \ {r} : req[q].pc = "idle"

\* variant: the call refused while the monitoring is running
RunOnceCheck_busyWhileRunning(r, ip) ==
    /\ req[r].pc = "idle"
    /\ LET count == CountInWindow(demo_executions, ip, now)
       IN  IF count >= MAX_RUNS \/ crew_running
           THEN req' = [req EXCEPT ![r] = [pc |-> "done", ip |-> ip, count |-> count,
                                           result |-> LimitReachedResult(count),
                                           exc |-> NoException]]
           ELSE /\ Len(demo_executions) < MaxLog
                /\ req' = [req EXCEPT ![r] = [pc |-> "insert", ip |-> ip, count |-> count,
                                              result |-> NoResult, exc |-> NoException]]
    /\ UNCHANGED <<demo_executions, now, log_files, crew_running, crew_thread, ctl, loop, calc>>

\* variant: the limit test written count > MAX_RUNS
RunOnceCheck_offByOne(r, ip) ==
    /\ req[r].pc = "idle"
    /\ LET count == CountInWindow(demo_executions, ip, now)
       IN  IF count > MAX_RUNS
           THEN req' = [req EXCEPT ![r] = [pc |-> "done", ip |-> ip, count |-> count,
                                           result |-> LimitReachedResult(count),
                                           exc |-> NoException]]
           ELSE /\ Len(demo_executions) < MaxLog
                /\ req' = [req EXCEPT ![r] = [pc |-> "insert", ip |-> ip, count |-> count,
                                              result |-> NoResult, exc |-> NoException]]
    /\ UNCHANGED <<demo_executions, now, log_files, crew_running, crew_thread, ctl, loop, calc>>

\* variant: the limit branch without its return, falling through to the insert
RunOnceCheck_noReturn(r, ip) ==
    /\ req[r].pc = "idle"
    /\ Len(demo_executions) < MaxLog
    /\ req' = [req EXCEPT ![r] = [pc |-> "insert", ip |-> ip,
                                  count |-> CountInWindow(demo_executions, ip, now),
                                  result |-> NoResult, exc |-> NoException]]
    /\ UNCHANGED <<demo_executions, now, log_files, crew_running, crew_thread, ctl, loop, calc>>

\* lines 208-228: read the count; return the limit dict when count >= MAX_RUNS
RunOnceCheck(r, ip) ==
    /\ req[r].pc = "idle"
    /\ LET count == CountInWindow(demo_executions, ip, now)
       IN  IF count >= MAX_RUNS
           THEN req' = [req EXCEPT ![r] = [pc |-> "done", ip |-> ip, count |-> count,
                                           result |-> LimitReachedResult(count),
                                           exc |-> NoException]]
           ELSE /\ Len(demo_executions) < MaxLog
                /\ req' = [req EXCEPT ![r] = [pc |-> "insert", ip |-> ip, count |-> count,
                                              result |-> NoResult, exc |-> NoException]]
    /\ UNCHANGED <<demo_executions, now, log_files, crew_running, crew_thread, ctl, loop, calc>>

\* lines 230-236: record the execution, then enter run_crew_cycle
RunOnceInsert(r) ==
    /\ req[r].pc = "insert"
    /\ demo_executions' = InsertExecution(demo_executions, req[r].ip, now)
    /\ req' = [req EXCEPT ![r].pc = "kickoff"]
    /\ UNCHANGED <<now, log_files, crew_running, crew_thread, ctl, loop, calc>>

\* run_crew_cycle line 165: kickoff returns
RunOnceKickoffReturn(r) ==
    /\ req[r].pc = "kickoff"
    /\ req' = [req EXCEPT ![r].pc = "update"]
    /\ UNCHANGED <<demo_executions, now, log_files, crew_running, crew_thread, ctl, loop, calc>>

\* variant: run_crew_cycle wraps what kickoff raised in an error of its own
PropagatedException_wrapped(e) == [type |-> "CycleExecutionError", cause |-> e.type]

\* variant: the failed call gives its row back
RunOnceKickoffRaise_refund(r) ==
    /\ req[r].pc = "kickoff"
    /\ \E t \in ExcTypes :
         req' = [req EXCEPT ![r].pc = "done",
                            ![r].exc = [type |-> t, cause |-> "None"]]
    /\ demo_executions' = SubSeq(demo_executions, 1, Len(demo_executions) - 1)
    /\ UNCHANGED <<now, log_files, crew_running, crew_thread, ctl, loop, calc>>

\* run_crew_cycle line 165: kickoff raises; nothing on the way up catches it
PropagatedException(e) == e

RunOnceKickoffRaise(r) ==
    /\ req[r].pc = "kickoff"
    /\ \E t \in ExcTypes :
         req' = [req EXCEPT ![r].pc = "done",
                            ![r].exc = PropagatedException([type |-> t, cause |-> "None"])]
    /\ UNCHANGED <<demo_executions, now, log_files, crew_running, crew_thread, ctl, loop, calc>>

\* run_crew_cycle lines 167-168 and run_once_with_limit lines 240-248;
\* choices are the sets of files whose update may fail in this run
RunOnceUpdateWith(r, choices) ==
    /\ req[r].pc = "update"
    /\ \E failing \in choices :
         log_files' = update_log_timestamps(log_files, strftime(now), failing)
    /\ req' = [req EXCEPT ![r].pc = "done", ![r].result = AllowedResult(req[r].count)]
    /\ UNCHANGED <<demo_executions, now, crew_running, crew_thread, ctl, loop, calc>>

\* the update with the I/O of its files left to succeed
RunOnceUpdateClean(r) == RunOnceUpdateWith(r, {{}})

RunOnceUpdate(r) == RunOnceUpdateWith(r, FailChoices)

\* the caller (handle_run_dashboard) has taken the dict or the exception
RunOnceReturn(r) ==
    /\ req[r].pc = "done"
    /\ req' = [req EXCEPT ![r] = IdleReq]
    /\ UNCHANGED <<demo_executions, now, log_files, crew_running, crew_thread, ctl, loop, calc>>

\* time passes, by more than the 60 seconds a monitor_loop sleeps
Tick ==
    /\ now + TickHours <= MaxTicks * TickHours
    /\ \A t \in Threads : loop[t].pc # "sleep"
    /\ now' = now + TickHours
    /\ UNCHANGED <<demo_executions, log_files, req, crew_running, crew_thread, ctl, loop, calc>>

---------------------------------------------------------------------------
\* start_crew_monitoring / stop_crew_monitoring

IdleCtl == [pc |-> "idle", ret |-> "None", exc |-> "None"]

Unborn == [pc |-> "unborn"]

\* a monitor_loop thread that has been started and has not ended
Alive(t) == loop[t].pc \in {"test", "kickoff", "update", "sleep"}

\* the Thread objects not yet constructed
FreeThreads == {t \in Threads : loop[t].pc = "unborn"}

\* the callers between the flag test and the Thread construction
Constructing == {c \in Ctl : ctl[c].pc \in {"set", "create"}}

\* variant: start without the test of the flag
StartCheck_noGuard(c) ==
    /\ ctl[c].pc = "idle"
    /\ Cardinality(FreeThreads) > Cardinality(Constructing)
    /\ ctl' = [ctl EXCEPT ![c].pc = "set"]
    /\ UNCHANGED <<demo_executions, now, log_files, req, crew_running, crew_thread, loop, calc>>

\* line 191: if not crew_running / line 196: return "already running"
StartCheck(c) ==
    /\ ctl[c].pc = "idle"
    /\ IF ~crew_running
       THEN /\ Cardinality(FreeThreads) > Cardinality(Constructing)
            /\ ctl' = [ctl EXCEPT ![c].pc = "set"]
       ELSE ctl' = [ctl EXCEPT ![c] = [pc |-> "done", ret |-> "already running",
                                       exc |-> "None"]]
    /\ UNCHANGED <<demo_executions, now, log_files, req, crew_running, crew_thread, loop, calc>>

\* line 192: crew_running = True
StartSet(c) ==
    /\ ctl[c].pc = "set"
    /\ crew_running' = TRUE
    /\ ctl' = [ctl EXCEPT ![c].pc = "create"]
    /\ UNCHANGED <<demo_executions, now, log_files, req, crew_thread, loop, calc>>

\* line 193: crew_thread = threading.Thread(target=monitor_loop, daemon=True)
StartCreate(c) ==
    /\ ctl[c].pc = "create"
    /\ LET t == CHOOSE u \in FreeThreads : \A v \in FreeThreads : u <= v
       IN  /\ crew_thread' = t
           /\ loop' = [loop EXCEPT ![t] = [pc |-> "created"]]
    /\ ctl' = [ctl EXCEPT ![c].pc = "start"]
    /\ UNCHANGED <<demo_executions, now, log_files, req, crew_running, calc>>

\* lines 194-195: crew_thread.start() on the Thread the global holds now;
\* Thread.start() raises RuntimeError on a thread that was already started
StartStart(c) ==
    /\ ctl[c].pc = "start"
    /\ IF loop[crew_thread].pc = "created"
       THEN /\ loop' = [loop EXCEPT ![crew_thread] = [pc |-> "test"]]
            /\ ctl' = [ctl EXCEPT ![c] = [pc |-> "done", ret |-> "started",
                                          exc |-> "None"]]
       ELSE /\ loop' = loop
            /\ ctl' = [ctl EXCEPT ![c] = [pc |-> "done", ret |-> "None",
                                          exc |-> "RuntimeError"]]
    /\ UNCHANGED <<demo_executions, now, log_files, req, crew_running, crew_thread, calc>>

\* stop_crew_monitoring
Stop(c) ==
    /\ ctl[c].pc = "idle"
    /\ crew_running' = FALSE
    /\ ctl' = [ctl EXCEPT ![c] = [pc |-> "done", ret |-> "stopped", exc |-> "None"]]
    /\ UNCHANGED <<demo_executions, now, log_files, req, crew_thread, loop, calc>>

\* the caller has taken the status message or the exception
CtlReturn(c) ==
    /\ ctl[c].pc = "done"
    /\ ctl' = [ctl EXCEPT ![c] = IdleCtl]
    /\ UNCHANGED <<demo_executions, now, log_files, req, crew_running, crew_thread, loop, calc>>

---------------------------------------------------------------------------
\* monitor_loop

\* variant: while True
LoopTest_ignoresFlag(t) ==
    /\ loop[t].pc = "test"
    /\ loop' = [loop EXCEPT ![t].pc = "kickoff"]
    /\ UNCHANGED <<demo_executions, now, log_files, req, crew_running, crew_thread, ctl, calc>>

\* line 178: while crew_running
LoopTest(t) ==
    /\ loop[t].pc = "test"
    /\ loop' = [loop EXCEPT ![t].pc = IF crew_running THEN "kickoff" ELSE "exited"]
    /\ UNCHANGED <<demo_executions, now, log_files, req, crew_running, crew_thread, ctl, calc>>

\* variant: a cycle of the loop recorded as an execution of the visitor
LoopKickoffReturn_recorded(t) ==
    /\ loop[t].pc = "kickoff"
    /\ loop' = [loop EXCEPT ![t].pc = "update"]
    /\ demo_executions' = Append(demo_executions, ExecutionRecord("1.2.3.4", now))
    /\ UNCHANGED <<now, log_files, req, crew_running, crew_thread, ctl, calc>>

\* line 185: kickoff returns
LoopKickoffReturn(t) ==
    /\ loop[t].pc = "kickoff"
    /\ loop' = [loop EXCEPT ![t].pc = "update"]
    /\ UNCHANGED <<demo_executions, now, log_files, req, crew_running, crew_thread, ctl, calc>>

\* where the thread stands after kickoff raised: monitor_loop has no
\* try/except, the exception ends the thread
AfterLoopFailure == "crashed"

\* line 185: kickoff raises
LoopKickoffRaise(t) ==
    /\ loop[t].pc = "kickoff"
    /\ loop' = [loop EXCEPT ![t].pc = AfterLoopFailure]
    /\ UNCHANGED <<demo_executions, now, log_files, req, crew_running, crew_thread, ctl, calc>>

\* lines 187-189: update_log_timestamps(); cycle += 1; time.sleep(60).
\* The local cycle only numbers the inputs of the next kickoff and the log
\* line of line 179; the orchestration call is opaque, so it is not kept.
LoopUpdate(t) ==
    /\ loop[t].pc = "update"
    /\ \E failing \in FailChoices :
         log_files' = update_log_timestamps(log_files, strftime(now), failing)
    /\ loop' = [loop EXCEPT ![t].pc = "sleep"]
    /\ UNCHANGED <<demo_executions, now, req, crew_running, crew_thread, ctl, calc>>

\* line 189: time.sleep(60) returns
LoopWake(t) ==
    /\ loop[t].pc = "sleep"
    /\ loop' = [loop EXCEPT ![t].pc = "test"]
    /\ UNCHANGED <<demo_executions, now, log_files, req, crew_running, crew_thread, ctl, calc>>

LoopStep(t) ==
    \/ LoopTest(t)
    \/ LoopKickoffReturn(t)
    \/ LoopKickoffRaise(t)
    \/ LoopUpdate(t)
    \/ LoopWake(t)

---------------------------------------------------------------------------
\* Arithmetic of the calculation tools.  A float is modelled by the exact
\* rational [n, d] (d > 0, lowest terms); round(x, 2) gives an integer
\* number of hundredths.

RECURSIVE GCD(_, _)
GCD(a, b) == IF b = 0 THEN a ELSE GCD(b, a % b)

Abs(x) == IF x < 0 THEN -x ELSE x

Rat(n, d) ==
    LET g == GCD(Abs(n), Abs(d))
        sgn == IF d < 0 THEN -1 ELSE 1
    IN  [n |-> sgn * (n \div g), d |-> sgn * (d \div g)]

RatMul(a, b) ==
    LET g1 == GCD(Abs(a.n), b.d)
        g2 == GCD(Abs(b.n), a.d)
    IN  [n |-> (a.n \div g1) * (b.n \div g2), d |-> (a.d \div g2) * (b.d \div g1)]

RatAdd(a, b) ==
    LET lcm == (a.d \div GCD(a.d, b.d)) * b.d
    IN  Rat(a.n * (lcm \div a.d) + b.n * (lcm \div b.d), lcm)

RatNeg(a) == [n |-> -a.n, d |-> a.d]

RatSub(a, b) == RatAdd(a, RatNeg(b))

RatDiv(a, b) == RatMul(a, Rat(b.d, b.n))

RatLess(a, b) == a.n * b.d < b.n * a.d

RatInt(k) == [n |-> k, d |-> 1]

\* round(x, 2): to the nearest hundredth, ties to the even one
Round2(x) ==
    LET a == Abs(x.n)
        whole == a \div x.d
        scaled == 100 * (a % x.d)
        c == scaled \div x.d
        twice == 2 * (scaled % x.d)
        up == twice > x.d \/ (twice = x.d /\ c % 2 = 1)
        hundredths == 100 * whole + c + (IF up THEN 1 ELSE 0)
    IN  IF x.n < 0 THEN -hundredths ELSE hundredths

---------------------------------------------------------------------------
\* _calculate_years_to_maturity_internal

HOURS_PER_DAY == 24

\* datetime.strptime(maturity_date, "%Y-%m-%d"): midnight of that day, as a
\* clock reading in hours; a maturity_date is the number of its day
strptime(maturity_date) == maturity_date * HOURS_PER_DAY

\* variant: the difference rounded up to whole days
days_remaining_ceil(maturity, today) == -((today - maturity) \div HOURS_PER_DAY)

\* (maturity - today).days: timedelta.days is the floor of the difference
days_remaining(maturity, today) == (maturity - today) \div HOURS_PER_DAY

\* variant: return years
ClampYears_unclamped(years) == years

\* max(years, 0)
ClampYears(years) == IF RatLess(years, RatInt(0)) THEN RatInt(0) ELSE years

calculate_years_to_maturity_internal(maturity_date, today) ==
    LET maturity == strptime(maturity_date)
        years == RatDiv(RatInt(days_remaining(maturity, today)), Rat(36525, 100))
    IN  ClampYears(years)

---------------------------------------------------------------------------
\* calculate_swap_pnl

\* variant: every position valued as RCV_FIXED
Direction_alwaysLong(pay_receive) == 1

\* direction = -1 if position["pay_receive"] == "PAY_FIXED" else 1
Direction(pay_receive) == IF pay_receive = "PAY_FIXED" THEN -1 ELSE 1

\* variant: current_rate * 10000 - entry_rate
RateChangeBps_noParens(current_rate, entry_rate) ==
    RatSub(RatMul(current_rate, RatInt(10000)), entry_rate)

\* rate_change_bps = (current_rate - entry_rate) * 10000
RateChangeBps(current_rate, entry_rate) ==
    RatMul(RatSub(current_rate, entry_rate), RatInt(10000))

\* position is the dict with all its keys; today is datetime.now()
calculate_swap_pnl(position, current_rate, today) ==
    LET entry_rate == position.fixed_rate
        notional == RatInt(position.notional)
        direction == Direction(position.pay_receive)
        years_to_maturity ==
            calculate_years_to_maturity_internal(position.maturity_date, today)
        dv01 == RatMul(RatMul(notional, Rat(1, 10000)), years_to_maturity)
        rate_change_bps == RateChangeBps(current_rate, entry_rate)
        pnl == RatMul(RatMul(rate_change_bps, dv01), RatInt(direction))
    IN  [position_id |-> position.position_id,
         entry_rate |-> entry_rate,
         current_rate |-> current_rate,
         rate_change_bps |-> Round2(rate_change_bps),
         dv01 |-> Round2(dv01),
         pnl |-> Round2(pnl),
         notional |-> position.notional]

---------------------------------------------------------------------------
\* Calls of the calculation tools

NoCall == [tool |-> "none"]

\* rates in percentage points, as the positions table and the tests hold them
Pct(hundredths) == Rat(hundredths, 100)

FixedRates == {Pct(410), Pct(425)}

CurrentRates == {Pct(340), Pct(410), Pct(425), Pct(450)}

\* (notional, day of maturity): day 0 begins at clock reading 0
SizesAndMaturities ==
    {<<10000000, -1>>, <<10000000, 0>>, <<10000000, 1>>, <<10000000, 2>>,
     <<10000000, 30>>, <<10000, 1826>>}

Positions ==
    {[position_id |-> "POS001", fixed_rate |-> f, notional |-> sm[1],
      pay_receive |-> pr, maturity_date |-> sm[2]] :
        f \in FixedRates, sm \in SizesAndMaturities, pr \in {"PAY_FIXED", "RCV_FIXED"}}

\* a call of calculate_swap_pnl
CallPnl(position, current_rate) ==
    /\ calc' = [tool |-> "pnl", position |-> position, current_rate |-> current_rate,
                at |-> now,
                result |-> calculate_swap_pnl(position, current_rate, now),
                repeated |-> FALSE,
                prev_at |-> now,
                previous |-> calculate_swap_pnl(position, current_rate, now)]
    /\ UNCHANGED <<demo_executions, now, log_files, req, crew_running, crew_thread, ctl, loop>>

\* the same call made once more, with the arguments of the last one
RepeatPnl ==
    /\ calc.tool = "pnl"
    /\ calc' = [calc EXCEPT !.at = now,
                            !.result = calculate_swap_pnl(calc.position,
                                                          calc.current_rate, now),
                            !.repeated = TRUE,
                            !.prev_at = calc.at,
                            !.previous = calc.result]
    /\ UNCHANGED <<demo_executions, now, log_files, req, crew_running, crew_thread, ctl, loop>>

---------------------------------------------------------------------------
\* calculate_swap_pnl on a dict that lacks keys

\* the keys of the position dict
PositionKeys == {"position_id", "fixed_rate", "notional", "pay_receive", "maturity_date"}

\* the keys in the order of their first subscript position[...]: lines 40,
\* 41, 44, 50 and, after the calculation, 62
SubscriptOrder ==
    <<"fixed_rate", "notional", "pay_receive", "maturity_date", "position_id">>

\* the subscript that raises KeyError, 0 when none does
FirstKeyError(keys) ==
    LET missing == {i \in 1..Len(SubscriptOrder) : SubscriptOrder[i] \notin keys}
    IN  IF missing = {} THEN 0
        ELSE CHOOSE i \in missing : \A j \in missing : i <= j

\* keys is the set of keys the dict has, position the values of all keys,
\* of which those of the keys in the dict count.  calculated tells whether
\* lines 50-59 have run: dv01, rate_change_bps and pnl computed and logged.
swap_pnl_outcome(position, keys, current_rate, today) ==
    LET k == FirstKeyError(keys)
    IN  IF k = 0
        THEN [exc |-> "None", key |-> "None", calculated |-> TRUE, returned |-> TRUE,
              pnl |-> calculate_swap_pnl(position, current_rate, today).pnl]
        ELSE IF SubscriptOrder[k] = "position_id"
        THEN [exc |-> "KeyError", key |-> SubscriptOrder[k],
              calculated |-> TRUE, returned |-> FALSE,
              pnl |-> calculate_swap_pnl(position, current_rate, today).pnl]
        ELSE [exc |-> "KeyError", key |-> SubscriptOrder[k],
              calculated |-> FALSE, returned |-> FALSE, pnl |-> 0]

---------------------------------------------------------------------------
\* calculate_portfolio_dv01

\* total_dv01 after the for loop has run over positions, from total_dv01 = 0
RECURSIVE total_dv01(_, _)
total_dv01(positions, today) ==
    IF positions = <<>> THEN RatInt(0)
    ELSE LET n == Len(positions)
             position == positions[n]
             notional == RatInt(position.notional)
             years ==
                 calculate_years_to_maturity_internal(position.maturity_date, today)
             dv01 == RatMul(RatMul(notional, Rat(1, 10000)), years)
             direction == Direction(position.pay_receive)
         IN  RatAdd(total_dv01(SubSeq(positions, 1, n - 1), today),
                    RatMul(dv01, RatInt(direction)))

calculate_portfolio_dv01(positions, today) == Round2(total_dv01(positions, today))

---------------------------------------------------------------------------
\* calculate_dynamic_thresholds

\* variant: a notional equal to a bound falls into the tier below it
TierPcts_exclusive(notional) ==
    IF notional > 20000000 THEN <<Rat(3, 1000), Rat(15, 10000)>>
    ELSE IF notional > 10000000 THEN <<Rat(5, 1000), Rat(25, 10000)>>
    ELSE <<Rat(1, 100), Rat(5, 1000)>>

\* (profit_pct, loss_pct) of the if / elif / else chain
TierPcts(notional) ==
    IF notional >= 20000000 THEN <<Rat(3, 1000), Rat(15, 10000)>>
    ELSE IF notional >= 10000000 THEN <<Rat(5, 1000), Rat(25, 10000)>>
    ELSE <<Rat(1, 100), Rat(5, 1000)>>

\* variant: 1 - volatility * 10
VolatilityMultiplier_inverse(volatility) ==
    RatSub(RatInt(1), RatMul(volatility, RatInt(10)))

\* (1 + volatility * 10)
VolatilityMultiplier(volatility) ==
    RatAdd(RatInt(1), RatMul(volatility, RatInt(10)))

calculate_dynamic_thresholds(position, volatility) ==
    LET notional == RatInt(position.notional)
        profit_pct == TierPcts(position.notional)[1]
        loss_pct == TierPcts(position.notional)[2]
        adjust == VolatilityMultiplier(volatility)
        profit_target == RatMul(RatMul(notional, profit_pct), adjust)
        stop_loss == RatMul(RatMul(RatNeg(notional), loss_pct), adjust)
    IN  [position_id |-> position.position_id,
         profit_target |-> Round2(profit_target),
         stop_loss |-> Round2(stop_loss)]

\* amounts none of which falls half-way between two hundredths, where
\* round() goes by the binary value of the float
Notionals ==
    {4, 5000000, 9999996, 10000000, 15000000, 19999992, 20000000, 25000000}

\* the volatility is a float that is not validated
Volatilities == {Rat(-2, 10), Rat(0, 1), Rat(1, 100), Rat(2, 100), Rat(5, 100)}

ThresholdPositions ==
    {[position_id |-> "POS001", fixed_rate |-> Pct(410), notional |-> n,
      pay_receive |-> pr, maturity_date |-> 30] :
        n \in Notionals, pr \in {"PAY_FIXED", "RCV_FIXED"}}

\* a call of calculate_dynamic_thresholds
CallThresholds(position, volatility) ==
    /\ calc' = [tool |-> "thresholds", position |-> position,
                volatility |-> volatility, at |-> now,
                result |-> calculate_dynamic_thresholds(position, volatility)]
    /\ UNCHANGED <<demo_executions, now, log_files, req, crew_running, crew_thread, ctl, loop>>

---------------------------------------------------------------------------
\* check_trading_signal

DEFAULT_THRESHOLD_PROFIT == 50000

DEFAULT_THRESHOLD_LOSS == -25000

\* variant: pnl > threshold_profit
ProfitHit_strict(pnl, threshold_profit) == pnl > threshold_profit

\* if pnl >= threshold_profit
ProfitHit(pnl, threshold_profit) == pnl >= threshold_profit

\* elif pnl <= threshold_loss
LossHit(pnl, threshold_loss) == pnl <= threshold_loss

ProfitSignal ==
    [signal |-> "CLOSE", reason |-> "Profit target hit",
     action |-> "Close position to lock in profit"]

LossSignal ==
    [signal |-> "CLOSE", reason |-> "Stop loss hit",
     action |-> "Close position to limit loss"]

HoldSignal ==
    [signal |-> "HOLD", reason |-> "within acceptable range",
     action |-> "Continue monitoring"]

\* variant: the stop loss tested before the profit target
check_trading_signal_lossFirst(pnl, threshold_profit, threshold_loss) ==
    IF LossHit(pnl, threshold_loss) THEN LossSignal
    ELSE IF ProfitHit(pnl, threshold_profit) THEN ProfitSignal
    ELSE HoldSignal

check_trading_signal(pnl, threshold_profit, threshold_loss) ==
    IF ProfitHit(pnl, threshold_profit) THEN ProfitSignal
    ELSE IF LossHit(pnl, threshold_loss) THEN LossSignal
    ELSE HoldSignal

\* dollars; the thresholds need not be ordered
Pnls == {-45000, -30000, -25000, -24999, 0, 49999, 50000, 60000, 90000}

ProfitThresholds == {DEFAULT_THRESHOLD_PROFIT, 90000, 0, -25000}

LossThresholds == {DEFAULT_THRESHOLD_LOSS, -45000, 0, 50000}

\* a call of check_trading_signal
CallSignal(pnl, threshold_profit, threshold_loss) ==
    /\ calc' = [tool |-> "signal", pnl |-> pnl,
                threshold_profit |-> threshold_profit,
                threshold_loss |-> threshold_loss, at |-> now,
                result |-> check_trading_signal(pnl, threshold_profit, threshold_loss)]
    /\ UNCHANGED <<demo_executions, now, log_files, req, crew_running, crew_thread, ctl, loop>>

---------------------------------------------------------------------------
\* Calls of calculate_portfolio_dv01

MaxPortfolio == 2

PortfolioPositions ==
    {[position_id |-> "POS001", fixed_rate |-> Pct(410), notional |-> sm[1],
      pay_receive |-> pr, maturity_date |-> sm[2]] :
        sm \in {<<10000000, 30>>, <<10000000, -1>>, <<10000, 1826>>},
        pr \in {"PAY_FIXED", "RCV_FIXED"}}

Portfolios == UNION {[1..n -> PortfolioPositions] : n \in 0..MaxPortfolio}

CallPortfolio(positions) ==
    /\ calc' = [tool |-> "portfolio", positions |-> positions, at |-> now,
                result |-> calculate_portfolio_dv01(positions, now)]
    /\ UNCHANGED <<demo_executions, now, log_files, req, crew_running, crew_thread, ctl, loop>>

---------------------------------------------------------------------------
\* The log artifacts between the orchestration, which writes them, and
\* update_log_timestamps

\* what the orchestration leaves in an artifact: nothing, a line without or
\* with its newline, several lines, a text that itself begins "Last run:"
ArtifactTexts ==
    {<<>>,
     <<"report">>,
     <<"report", NEWLINE, "Last run:", "noted", NEWLINE>>,
     <<"Last run:", "stale">>}

\* the artifacts followed through rewrites by the orchestration
RewrittenArtifacts == {log_file_names[1], log_file_names[2]}

\* the orchestration writes an artifact anew
WriteArtifact(f, text) ==
    /\ log_files' = [log_files EXCEPT ![f] = [exists |-> TRUE, content |-> text]]
    /\ calc' = NoCall
    /\ UNCHANGED <<demo_executions, now, req, crew_running, crew_thread, ctl, loop>>

\* a call of update_log_timestamps
CallUpdater(failing) ==
    /\ log_files' = update_log_timestamps(log_files, strftime(now), failing)
    /\ calc' = [tool |-> "update_log_timestamps", before |-> log_files,
                failing |-> failing, at |-> now]
    /\ UNCHANGED <<demo_executions, now, req, crew_running, crew_thread, ctl, loop>>

---------------------------------------------------------------------------
\* Calls of calculate_swap_pnl with dicts that may lack keys

SparsePositions ==
    {p \in Positions : p.notional = 10000000 /\ p.maturity_date \in {-1, 30}}

CallPnlWithKeys(position, keys, current_rate) ==
    /\ calc' = [tool |-> "pnl of dict", position |-> position, keys |-> keys,
                current_rate |-> current_rate, at |-> now,
                outcome |-> swap_pnl_outcome(position, keys, current_rate, now)]
    /\ UNCHANGED <<demo_executions, now, log_files, req, crew_running, crew_thread, ctl, loop>>

---------------------------------------------------------------------------
\* get_current_usage

\* the count query of lines 70-76, run for the address of the request
GetCurrentUsage(ip) ==
    /\ calc' = [tool |-> "get_current_usage", ip |-> ip, at |-> now,
                count |-> CountInWindow(demo_executions, ip, now)]
    /\ UNCHANGED <<demo_executions, now, log_files, req, crew_running, crew_thread, ctl, loop>>

---------------------------------------------------------------------------
Init ==
    /\ demo_executions = <<>>
    /\ now = 0
    /\ log_files = [f \in LogFiles |-> AbsentFile]
    /\ req = [r \in Req |-> IdleReq]
    /\ crew_running = FALSE
    /\ crew_thread = 0
    /\ ctl = [c \in Ctl |-> IdleCtl]
    /\ loop = [t \in Threads |-> Unborn]
    /\ calc = NoCall

\* The foreground path: UI actions calling run_once_with_limit one at a
\* time, from any address, while time passes.
Next ==
    \/ \E r \in Req, ip \in IPs : Serialized(r) /\ RunOnceCheck(r, ip)
    \/ \E r \in Req : RunOnceInsert(r)
    \/ \E r \in Req : RunOnceKickoffReturn(r)
    \/ \E r \in Req : RunOnceKickoffRaise(r)
    \/ \E r \in Req : RunOnceUpdateClean(r)
    \/ \E r \in Req : RunOnceReturn(r)
    \/ Tick

Spec == Init /\ [][Next]_vars

\* The continuous monitoring: callers of start_crew_monitoring and
\* stop_crew_monitoring interleaved statement by statement with each other
\* and with the monitor_loop threads they start.
SchedNext ==
    \/ \E c \in Ctl : StartCheck(c)
    \/ \E c \in Ctl : StartSet(c)
    \/ \E c \in Ctl : StartCreate(c)
    \/ \E c \in Ctl : StartStart(c)
    \/ \E c \in Ctl : Stop(c)
    \/ \E c \in Ctl : CtlReturn(c)
    \/ \E t \in Threads : LoopTest(t)
    \/ \E t \in Threads : LoopKickoffReturn(t)
    \/ \E t \in Threads : LoopKickoffRaise(t)
    \/ \E t \in Threads : LoopUpdate(t)
    \/ \E t \in Threads : LoopWake(t)

SchedSpec == Init /\ [][SchedNext]_vars

\* The threads are scheduled fairly; kickoff and time.sleep(60) end.
FairSchedSpec == SchedSpec /\ \A t \in Threads : WF_vars(LoopStep(t))

\* the address of the visitor, and of callers that overlap
SharedIp == "1.2.3.4"

\* the visitor who presses the run button, and the operator of the monitoring
Visitor == 1

Operator == 1

\* One visitor's calls of run_once_with_limit interleaved statement by
\* statement with the operator's start_crew_monitoring and
\* stop_crew_monitoring and with the monitor_loop threads.
AppNext ==
    \/ RunOnceCheck(Visitor, SharedIp)
    \/ RunOnceInsert(Visitor)
    \/ RunOnceKickoffReturn(Visitor)
    \/ RunOnceKickoffRaise(Visitor)
    \/ RunOnceUpdate(Visitor)
    \/ RunOnceReturn(Visitor)
    \/ StartCheck(Operator)
    \/ StartSet(Operator)
    \/ StartCreate(Operator)
    \/ StartStart(Operator)
    \/ Stop(Operator)
    \/ CtlReturn(Operator)
    \/ \E t \in Threads : LoopTest(t)
    \/ \E t \in Threads : LoopKickoffReturn(t)
    \/ \E t \in Threads : LoopKickoffRaise(t)
    \/ \E t \in Threads : LoopUpdate(t)
    \/ \E t \in Threads : LoopWake(t)

AppSpec == Init /\ [][AppNext]_vars

\* The visitor's page also reads the usage of its address, at any moment
\* of the calls, the monitoring and the loops.
UsageNext ==
    \/ AppNext
    \/ GetCurrentUsage(SharedIp)

UsageSpec == Init /\ [][UsageNext]_vars

\* Calls of run_once_with_limit from one address that overlap statement by
\* statement, all within one reading of the clock.
RaceNext ==
    \/ \E r \in Req : RunOnceCheck(r, SharedIp)
    \/ \E r \in Req : RunOnceInsert(r)
    \/ \E r \in Req : RunOnceKickoffReturn(r)
    \/ \E r \in Req : RunOnceKickoffRaise(r)
    \/ \E r \in Req : RunOnceUpdate(r)
    \/ \E r \in Req : RunOnceReturn(r)

RaceSpec == Init /\ [][RaceNext]_vars

\* The P&L tool called, and called again, as time passes.
PnlNext ==
    \/ \E position \in Positions, current_rate \in CurrentRates :
         CallPnl(position, current_rate)
    \/ RepeatPnl
    \/ Tick

PnlSpec == Init /\ [][PnlNext]_vars

\* The thresholds tool called at any time.
ThresholdNext ==
    \/ \E position \in ThresholdPositions, volatility \in Volatilities :
         CallThresholds(position, volatility)
    \/ Tick

ThresholdSpec == Init /\ [][ThresholdNext]_vars

\* The signal tool called at any time.
SignalNext ==
    \/ \E pnl \in Pnls, threshold_profit \in ProfitThresholds,
          threshold_loss \in LossThresholds :
         CallSignal(pnl, threshold_profit, threshold_loss)
    \/ Tick

SignalSpec == Init /\ [][SignalNext]_vars

\* The portfolio tool called at any time.
PortfolioNext ==
    \/ \E positions \in Portfolios : CallPortfolio(positions)
    \/ Tick

PortfolioSpec == Init /\ [][PortfolioNext]_vars

\* The artifacts written by the orchestration and stamped by the updater,
\* again and again as time passes.
UpdaterNext ==
    \/ \E f \in RewrittenArtifacts, text \in ArtifactTexts : WriteArtifact(f, text)
    \/ \E failing \in FailChoices : CallUpdater(failing)
    \/ Tick

UpdaterSpec == Init /\ [][UpdaterNext]_vars

\* The P&L tool called with position dicts of any set of keys.
PnlKeysNext ==
    \/ \E position \in SparsePositions, keys \in SUBSET PositionKeys,
          current_rate \in {Pct(340), Pct(410)} :
         CallPnlWithKeys(position, keys, current_rate)
    \/ Tick

PnlKeysSpec == Init /\ [][PnlKeysNext]_vars

---------------------------------------------------------------------------
\* Vocabulary of the properties

\* the rows of one address, in the order they were appended
RecordsOf(log, a) == SelectSeq(log, LAMBDA e : e.ip_address = a)

\* the rows of one address no older than the trailing 24 hours at time t
RecentOf(log, a, t) ==
    SelectSeq(log, LAMBDA e : e.ip_address = a /\ t - e.last_run < WINDOW_HOURS)

\* every call the address has been granted so far lies in the window that ends now
AllInOneWindow(a) == RecentOf(demo_executions, a, now) = RecordsOf(demo_executions, a)

IsLimitReached(q) == q.pc = "done" /\ q.result.output = "Demo limit reached"

IsAllowed(q) == q.pc = "done" /\ q.result.output = "Cycle completed"

IsRaised(q) == q.pc = "done" /\ q.exc # NoException

UsageCount(q) == q.result.button_text[2]

\* r enters run_once_with_limit in this step
Enters(r) == req[r].pc = "idle" /\ req'[r].pc # "idle"

\* the address on whose behalf r takes this step
ActingIp(r) == IF req[r].pc = "idle" THEN req'[r].ip ELSE req[r].ip

IsPrefix(s, t) == Len(s) <= Len(t) /\ SubSeq(t, 1, Len(s)) = s

---------------------------------------------------------------------------
\* C1: serialized calls of one address inside one 24-hour window, from an
\* empty log: the k-th call (k <= MAX_RUNS) is allowed and reports usage
\* count k, every later call is LimitReached with count MAX_RUNS, and the
\* address never has more than MAX_RUNS rows inside the window.
C1_QuotaSequence ==
    \A a \in IPs :
        AllInOneWindow(a) =>
            LET n == Len(RecordsOf(demo_executions, a))
            IN  /\ n <= MAX_RUNS
                /\ \A r \in Req :
                     (req[r].pc # "idle" /\ req[r].ip = a) =>
                        /\ req[r].pc = "insert" => req[r].count = n /\ n < MAX_RUNS
                        /\ req[r].pc \in {"kickoff", "update"} => req[r].count + 1 = n
                        /\ IsRaised(req[r]) => req[r].count + 1 = n
                        /\ IsAllowed(req[r]) =>
                              /\ UsageCount(req[r]) = n
                              /\ req[r].result.interactive = (n < MAX_RUNS)
                        /\ IsLimitReached(req[r]) =>
                              /\ n = MAX_RUNS
                              /\ UsageCount(req[r]) = MAX_RUNS
                        /\ req[r].pc = "done" =>
                              IsRaised(req[r]) \/ IsAllowed(req[r]) \/ IsLimitReached(req[r])

\* the sixth call inside the window has been refused with count MAX_RUNS
C1_Witness ==
    \E r \in Req :
        /\ IsLimitReached(req[r])
        /\ AllInOneWindow(req[r].ip)
        /\ UsageCount(req[r]) = MAX_RUNS

\* C2: a call that finds count >= MAX_RUNS returns the limit result and
\* neither appends a row, nor starts the orchestration call, nor runs the
\* log updater: the log and the log files are as before the call.
C2_LimitReachedFrame ==
    [][\A r \in Req :
          /\ (Enters(r) /\ Len(RecentOf(demo_executions, req'[r].ip, now)) >= MAX_RUNS)
                => IsLimitReached(req'[r])
          /\ (req'[r] # req[r] /\ (IsLimitReached(req[r]) \/ IsLimitReached(req'[r])))
                => /\ demo_executions' = demo_executions
                   /\ log_files' = log_files
                   /\ req'[r].pc \in {"done", "idle"}
                   /\ req[r].pc \in {"done", "idle"}]_vars

\* a refused call while log files written by earlier cycles exist
C2_Witness ==
    \E r \in Req :
        /\ IsLimitReached(req[r])
        /\ \E f \in LogFiles : log_files[f].exists

\* C3: a step of a call made for address a changes neither the rows nor
\* the windowed count of any other address b, and the count a call reads
\* is the number of its own address's rows in the trailing 24 hours.
C3_PerAddress ==
    [][\A r \in Req :
          (req'[r] # req[r]) =>
             /\ \A b \in IPs \ {ActingIp(r)} :
                  /\ RecordsOf(demo_executions', b) = RecordsOf(demo_executions, b)
                  /\ CountInWindow(demo_executions', b, now')
                        = CountInWindow(demo_executions, b, now)
             /\ Enters(r) =>
                  /\ req'[r].count = Len(RecentOf(demo_executions, req'[r].ip, now))
                  /\ IsLimitReached(req'[r]) = (req'[r].count >= MAX_RUNS)]_vars

\* an address is let in while another has used up its quota
C3_Witness ==
    \E r \in Req, a \in IPs :
        /\ req[r].pc = "insert"
        /\ a # req[r].ip
        /\ Len(RecentOf(demo_executions, a, now)) = MAX_RUNS

\* C4: the count read by a call is the number of the address's rows
\* younger than 24 hours; with fewer than MAX_RUNS of them the call is
\* allowed, whatever the number of older rows, and no row is ever removed.
C4_TrailingWindow ==
    [][/\ IsPrefix(demo_executions, demo_executions')
       /\ \A r \in Req :
            Enters(r) =>
               LET recent == {i \in 1..Len(demo_executions) :
                                 /\ demo_executions[i].ip_address = req'[r].ip
                                 /\ now - demo_executions[i].last_run < WINDOW_HOURS}
               IN  /\ req'[r].count = Cardinality(recent)
                   /\ (Cardinality(recent) < MAX_RUNS) = (req'[r].pc = "insert")
                   /\ (Cardinality(recent) >= MAX_RUNS) = IsLimitReached(req'[r])]_vars

\* an address holding MAX_RUNS rows, all of them now too old, is let in
C4_Witness ==
    \E r \in Req :
        /\ req[r].pc = "insert"
        /\ Len(RecordsOf(demo_executions, req[r].ip)) >= MAX_RUNS
        /\ req[r].count = 0

\* C5: the row of an allowed call is appended when the call leaves the
\* check, before the orchestration call starts; neither the failure nor the
\* success of the orchestration call changes the log afterwards, so the
\* failed call keeps its row.
C5_FailClosed ==
    [][\A r \in Req :
          /\ (req[r].pc = "insert" /\ req'[r].pc # "insert") =>
                /\ req'[r].pc = "kickoff"
                /\ demo_executions'
                      = Append(demo_executions,
                               [ip_address |-> req[r].ip, last_run |-> now])
          /\ (req'[r].pc = "kickoff") => req[r].pc \in {"insert", "kickoff"}
          /\ (req[r].pc = "kickoff" /\ req'[r].pc # "kickoff") =>
                /\ demo_executions' = demo_executions
                /\ Len(RecordsOf(demo_executions', req[r].ip)) >= req[r].count + 1
                /\ IsRaised(req'[r]) \/ req'[r].pc = "update"]_vars

\* MAX_RUNS calls, none of which completed a cycle, have used up the quota
C5_Witness ==
    \E r \in Req :
        /\ IsLimitReached(req[r])
        /\ \A f \in LogFiles : ~log_files[f].exists
        /\ \A a \in IPs \ {req[r].ip} : Len(RecordsOf(demo_executions, a)) = 0

---------------------------------------------------------------------------
LiveLoops == {t \in Threads : Alive(t)}

\* C7: at most one monitor_loop thread is alive in every reachable state.
C7_AtMostOneLoop == Cardinality(LiveLoops) <= 1

\* C8: a start that finds the flag set returns "already running" and leaves
\* the flag, the thread handle and the threads as they are; the flag is
\* set, the handle written and a thread started only by a start that found
\* the flag clear.
C8_StartWhileRunning ==
    [][/\ \A c \in Ctl :
            /\ (ctl[c].pc = "idle" /\ ctl'[c] # ctl[c] /\ ctl'[c].ret # "stopped") =>
                  IF crew_running
                  THEN /\ ctl'[c] = [pc |-> "done", ret |-> "already running",
                                     exc |-> "None"]
                       /\ UNCHANGED <<crew_running, crew_thread, loop>>
                  ELSE /\ ctl'[c].pc = "set"
                       /\ UNCHANGED <<crew_running, crew_thread, loop>>
            /\ (ctl'[c].ret = "already running" /\ ctl[c].ret # "already running") =>
                  crew_running
            /\ (ctl'[c].pc = "set") => ctl[c].pc \in {"idle", "set"}
            /\ (ctl'[c].pc = "create") => ctl[c].pc \in {"set", "create"}
            /\ (ctl'[c].pc = "start") => ctl[c].pc \in {"create", "start"}
       /\ ((~crew_running /\ crew_running') \/ crew_thread' # crew_thread \/ loop' # loop)
             => \/ \E d \in Ctl : /\ ctl[d].pc \in {"set", "create", "start"}
                                  /\ ctl'[d] # ctl[d]
                \/ \E t \in Threads : Alive(t) /\ loop'[t] # loop[t]]_vars

\* a start has been answered "already running" while a loop is alive
C8_Witness ==
    \E c \in Ctl :
        /\ ctl[c].ret = "already running"
        /\ crew_running
        /\ LiveLoops # {}

\* C9: once the flag is cleared for good every loop eventually ends; stop
\* itself moves no loop; a cycle in flight goes on to its log update and
\* the update to the sleep, whatever the flag.
C9_CooperativeStop ==
    /\ (<>[](~crew_running)) => <>[](LiveLoops = {})
    /\ \A t \in Threads : (loop[t].pc = "update") ~> (loop[t].pc = "sleep")
    /\ [][/\ (crew_running /\ ~crew_running') => loop' = loop /\ log_files' = log_files
          /\ \A t \in Threads :
               /\ (loop[t].pc = "kickoff" /\ loop'[t] # loop[t]) =>
                     loop'[t].pc \in {"update", "crashed"}
               /\ (loop[t].pc = "update" /\ loop'[t] # loop[t]) =>
                     /\ loop'[t].pc = "sleep"
                     /\ \E f \in LogFiles :
                          /\ log_files'[f].exists
                          /\ log_files'[f].content[2] = strftime(now)
               /\ (loop'[t].pc = "exited" /\ loop[t].pc # "exited") =>
                     loop[t].pc = "test" /\ ~crew_running]_vars

\* the only loop ever started has completed a cycle, log update included,
\* and has ended after a stop
C9_Witness ==
    /\ ~crew_running
    /\ \E t \in Threads :
         /\ loop[t].pc = "exited"
         /\ \A u \in Threads \ {t} : loop[u].pc = "unborn"
    /\ \E f \in LogFiles : log_files[f].exists

\* C10: when the orchestration call of a loop iteration ends, by a return
\* or by an exception, the loop is still alive and goes on to its sleep and
\* next iteration.
C10_LoopSurvivesFailure ==
    [][\A t \in Threads :
          (loop[t].pc = "kickoff" /\ loop'[t] # loop[t]) =>
              loop'[t].pc \in {"update", "sleep", "test"}]_vars


---------------------------------------------------------------------------
\* Properties of calculate_swap_pnl, read off the last call

PnlCalled == calc.tool = "pnl"

\* whole days from clock reading t to the midnight that begins the maturity
\* date, none once that midnight has passed
WholeDaysLeft(position, t) ==
    LET d == (position.maturity_date * HOURS_PER_DAY - t) \div HOURS_PER_DAY
    IN  IF d < 0 THEN 0 ELSE d

OppositeDirection(pay_receive) ==
    IF pay_receive = "PAY_FIXED" THEN "RCV_FIXED" ELSE "PAY_FIXED"

\* C14: a call for a position whose maturity date is in the past returns
\* pnl = 0 and dv01 = 0, whatever the notional, direction and rates.
C14_PastMaturity ==
    (PnlCalled /\ strptime(calc.position.maturity_date) < calc.at) =>
        calc.result.pnl = 0 /\ calc.result.dv01 = 0

\* a matured position valued after a rate move
C14_Witness ==
    /\ PnlCalled
    /\ strptime(calc.position.maturity_date) < calc.at
    /\ calc.current_rate # calc.position.fixed_rate
    /\ calc.result.pnl = 0
    /\ calc.result.dv01 = 0

C16_DirectionFlip ==
    PnlCalled =>
        LET flipped == [calc.position EXCEPT
                            !.pay_receive = OppositeDirection(@)]
            other == calculate_swap_pnl(flipped, calc.current_rate, calc.at)
        IN  /\ other.pnl = -calc.result.pnl
            /\ other.rate_change_bps = calc.result.rate_change_bps
            /\ other.dv01 = calc.result.dv01

\* a call whose pnl is not zero, so that the negation shows
C16_Witness ==
    /\ PnlCalled
    /\ calc.result.pnl # 0
    /\ calc.result.dv01 > 0

\* C17: rate_change_bps is the move of the rate, given in percentage
\* points, in units of 0.01 percentage point, to two decimals.
C17_BasisPoints ==
    PnlCalled =>
        calc.result.rate_change_bps =
            Round2(RatDiv(RatSub(calc.current_rate, calc.position.fixed_rate),
                          Rat(1, 100)))

\* C18: a call with current_rate equal to the position's fixed_rate returns
\* pnl = 0 and rate_change_bps = 0.
C18_ZeroMove ==
    (PnlCalled /\ calc.current_rate = calc.position.fixed_rate) =>
        calc.result.pnl = 0 /\ calc.result.rate_change_bps = 0

\* a position with time left and a dv01 valued at its own fixed rate
C18_Witness ==
    /\ PnlCalled
    /\ calc.current_rate = calc.position.fixed_rate
    /\ calc.result.dv01 > 0
    /\ calc.result.pnl = 0

\* C19 as stated: a call repeated with the same arguments returns what the
\* call before it returned, whatever time has passed between the two.
C19_Pure ==
    (PnlCalled /\ calc.repeated) => calc.result = calc.previous

\* C19 amended: a call repeated with the same arguments returns what the
\* call before it returned when the position has the same number of whole
\* days left to maturity at both calls.
C19_SameDaysLeft ==
    (/\ PnlCalled
     /\ calc.repeated
     /\ WholeDaysLeft(calc.position, calc.at) =
            WholeDaysLeft(calc.position, calc.prev_at)) =>
        calc.result = calc.previous

\* a repeated call later on the clock, with the same days left and a pnl
C19_Witness ==
    /\ PnlCalled
    /\ calc.repeated
    /\ calc.prev_at < calc.at
    /\ WholeDaysLeft(calc.position, calc.at) =
           WholeDaysLeft(calc.position, calc.prev_at)
    /\ calc.result.pnl # 0
    /\ calc.result = calc.previous


---------------------------------------------------------------------------
\* Properties of calculate_dynamic_thresholds, read off the last call

ThresholdsCalled == calc.tool = "thresholds"

\* the percentages the tiers are stated to use, in hundredths of a percent
StatedPcts(notional) ==
    CASE notional >= 20000000 -> <<30, 15>>
      [] notional >= 10000000 /\ notional < 20000000 -> <<50, 25>>
      [] notional < 10000000 -> <<100, 50>>

\* C20: the tier is the first bound, in descending order, that the notional
\* reaches; profit_target = notional * profit_pct * (1 + 10 * volatility)
\* and stop_loss = -notional * loss_pct * (1 + 10 * volatility), to two
\* decimals; 25,000,000 at volatility 0.02 gives 90,000.00 and -45,000.00.
C20_Tiers ==
    ThresholdsCalled =>
        LET n == calc.position.notional
            adjust == RatAdd(RatInt(1), RatMul(RatInt(10), calc.volatility))
            amount(pct) == RatMul(Rat(n * pct, 10000), adjust)
        IN  /\ calc.result.profit_target = Round2(amount(StatedPcts(n)[1]))
            /\ calc.result.stop_loss = -Round2(amount(StatedPcts(n)[2]))
            /\ (n = 25000000 /\ calc.volatility = Rat(2, 100)) =>
                   /\ calc.result.profit_target = 9000000
                   /\ calc.result.stop_loss = -4500000

\* a call with a notional exactly at the upper bound
C20_Witness ==
    /\ ThresholdsCalled
    /\ calc.position.notional = 20000000
    /\ calc.volatility = Rat(2, 100)
    /\ calc.result.profit_target = 7200000
    /\ calc.result.stop_loss = -3600000


---------------------------------------------------------------------------
\* run_once_with_limit beside the monitoring

\* the orchestration calls in progress: kickoff entered and not yet ended
CyclesInProgress ==
    Cardinality({r \in Req : req[r].pc = "kickoff"})
        + Cardinality({t \in Threads : loop[t].pc = "kickoff"})

\* C11: a step of run_once_with_limit changes neither crew_running nor
\* crew_thread nor any loop, and the call's decision and count are fixed by
\* the rows of its address inside the window alone: the same whether the
\* monitoring is running or stopped.
C11_IndependentOfScheduler ==
    [][\A r \in Req :
          (req'[r] # req[r]) =>
              /\ UNCHANGED <<crew_running, crew_thread, loop, ctl>>
              /\ Enters(r) =>
                   LET n == Len(RecentOf(demo_executions, req'[r].ip, now))
                   IN  /\ req'[r].count = n
                       /\ IF n >= MAX_RUNS
                          THEN /\ IsLimitReached(req'[r])
                               /\ UsageCount(req'[r]) = n
                          ELSE req'[r].pc = "insert"
              /\ (req[r].pc = "update" /\ req'[r].pc = "done") =>
                   /\ IsAllowed(req'[r])
                   /\ UsageCount(req'[r]) = req[r].count + 1]_vars

\* the monitoring is running with a loop inside a cycle, and the visitor's
\* second call has been let through and has returned its count
C11_Witness ==
    /\ crew_running
    /\ \E t \in Threads : loop[t].pc = "kickoff"
    /\ IsAllowed(req[Visitor])
    /\ UsageCount(req[Visitor]) = 2

\* C12: at most one orchestration call is in progress in every reachable
\* state, the cycles of the loops and of run_once_with_limit taken together.
C12_SingleFlight == CyclesInProgress <= 1

---------------------------------------------------------------------------
\* Failures of the log update

\* the file carries the header of an update made at the present time
FreshlyStamped(file) ==
    /\ file.exists
    /\ SubSeq(file.content, 1, 3) = <<"Last run:", strftime(now), NEWLINE>>

\* the artifacts whose update is never made to fail
NeverFailing == LogFiles \ UNION FailChoices

\* C26: the step that updates the logs, one of them failing or none, ends
\* in run_once_with_limit with the result of the cycle and its usage count
\* and no exception, and in monitor_loop with the loop going on to its
\* sleep; in both the artifacts that did not fail carry the new header.
C26_UpdateFailureContained ==
    [][/\ \A r \in Req :
            (req[r].pc = "update" /\ req'[r] # req[r]) =>
                /\ IsAllowed(req'[r])
                /\ req'[r].exc = NoException
                /\ UsageCount(req'[r]) = req[r].count + 1
                /\ \A f \in NeverFailing : FreshlyStamped(log_files'[f])
                /\ \A f \in LogFiles :
                       FreshlyStamped(log_files'[f]) \/ log_files'[f] = log_files[f]
       /\ \A t \in Threads :
            (loop[t].pc = "update" /\ loop'[t] # loop[t]) =>
                /\ loop'[t].pc = "sleep"
                /\ \A f \in NeverFailing : FreshlyStamped(log_files'[f])
                /\ \A f \in LogFiles :
                       FreshlyStamped(log_files'[f]) \/ log_files'[f] = log_files[f]]_vars

\* the call has returned its result although the first artifact could not
\* be written, and the other artifacts carry the header
C26_Witness ==
    /\ IsAllowed(req[Visitor])
    /\ ~log_files[log_file_names[1]].exists
    /\ \A f \in NeverFailing : FreshlyStamped(log_files[f])
    /\ \E t \in Threads : loop[t].pc = "sleep"

---------------------------------------------------------------------------
\* The execution log under all operations

UsageRead == calc.tool = "get_current_usage"

\* the step is taken by the one call that is at its INSERT
InsertStepOf(r) == req[r].pc = "insert" /\ req'[r].pc = "kickoff"

\* C28: every step leaves the rows there are as they are, in place; the
\* log changes only by the INSERT of a call that was let through, which
\* appends the one row (address of the call, now); reading the usage,
\* start and stop and the loops change nothing.
C28_AppendOnly ==
    [][/\ IsPrefix(demo_executions, demo_executions')
       /\ \A a \in IPs :
            Len(RecordsOf(demo_executions', a)) >= Len(RecordsOf(demo_executions, a))
       /\ \A r \in Req :
            InsertStepOf(r) =>
                demo_executions' =
                    Append(demo_executions, ExecutionRecord(req[r].ip, now))
       /\ (demo_executions' # demo_executions) => \E r \in Req : InsertStepOf(r)
       /\ (calc' # calc \/ ctl' # ctl \/ loop' # loop) =>
              demo_executions' = demo_executions]_vars

\* two rows in the log, the monitoring running, and the usage just read
C28_Witness ==
    /\ Len(demo_executions) = 2
    /\ crew_running
    /\ \E t \in Threads : loop[t].pc = "sleep"
    /\ UsageRead
    /\ calc.count = 2

\* what run_once_with_limit would decide for address a now
WouldBeLimited(log, a, t) == CountInWindow(log, a, t) >= MAX_RUNS

\* C30: a step of a loop, of start_crew_monitoring or of
\* stop_crew_monitoring leaves the log as it is, and with it the usage
\* count of every address and the decision of its next call.
C30_LoopOutsideQuota ==
    [][(loop' # loop \/ ctl' # ctl) =>
          /\ demo_executions' = demo_executions
          /\ \A a \in IPs :
               /\ CountInWindow(demo_executions', a, now') =
                      CountInWindow(demo_executions, a, now)
               /\ WouldBeLimited(demo_executions', a, now') =
                      WouldBeLimited(demo_executions, a, now)]_vars

\* a loop has completed a cycle and stamped the logs, the log is empty and
\* the usage read for the visitor is 0
C30_Witness ==
    /\ \E t \in Threads : loop[t].pc = "sleep"
    /\ \A f \in NeverFailing : log_files[f].exists
    /\ demo_executions = <<>>
    /\ UsageRead
    /\ calc.count = 0
    /\ req[Visitor].pc = "idle"

---------------------------------------------------------------------------
\* Overlapping calls

\* the calls that have read their count for address a and not yet inserted
PendingInserts(a) == {r \in Req : req[r].pc = "insert" /\ req[r].ip = a}

\* C13: with the calls of NumReq callers overlapping, the rows of their
\* address inside the window, together with the rows still to be inserted
\* by calls already let through, number at most MAX_RUNS - 1 + NumReq, so
\* never more than MAX_RUNS plus the number of racing callers.
C13_BoundedOverrun ==
    Len(RecentOf(demo_executions, SharedIp, now))
        + Cardinality(PendingInserts(SharedIp)) <= MAX_RUNS - 1 + NumReq

\* an address with more rows inside the window than MAX_RUNS
C13_Witness ==
    Len(RecentOf(demo_executions, SharedIp, now)) > MAX_RUNS


\* the thresholds of the last call's position at another volatility
ThresholdsAt(volatility) == calculate_dynamic_thresholds(calc.position, volatility)

\* C21 as stated: for v1 < v2 the magnitudes of profit_target and of
\* stop_loss at v2 are strictly greater than at v1.
C21_StrictlyIncreasing ==
    ThresholdsCalled =>
        \A v2 \in Volatilities :
            RatLess(calc.volatility, v2) =>
                /\ Abs(ThresholdsAt(v2).profit_target) > Abs(calc.result.profit_target)
                /\ Abs(ThresholdsAt(v2).stop_loss) > Abs(calc.result.stop_loss)

\* C21 amended: for v1 < v2 profit_target at v2 is at least that at v1 and
\* stop_loss at v2 is at most that at v1; for volatilities from 0 up these
\* are the magnitudes, which so never decrease.
C21_NonDecreasing ==
    ThresholdsCalled =>
        \A v2 \in Volatilities :
            RatLess(calc.volatility, v2) =>
                /\ ThresholdsAt(v2).profit_target >= calc.result.profit_target
                /\ ThresholdsAt(v2).stop_loss <= calc.result.stop_loss
                /\ ~RatLess(calc.volatility, RatInt(0)) =>
                     /\ Abs(ThresholdsAt(v2).profit_target)
                            >= Abs(calc.result.profit_target)
                     /\ Abs(ThresholdsAt(v2).stop_loss) >= Abs(calc.result.stop_loss)

\* a call at volatility 0 whose amounts are the same at 0.01 and greater
\* at 0.05
C21_Witness ==
    /\ ThresholdsCalled
    /\ calc.volatility = RatInt(0)
    /\ calc.result.profit_target = ThresholdsAt(Rat(1, 100)).profit_target
    /\ calc.result.stop_loss = ThresholdsAt(Rat(1, 100)).stop_loss
    /\ calc.result.profit_target < ThresholdsAt(Rat(5, 100)).profit_target
    /\ calc.result.stop_loss > ThresholdsAt(Rat(5, 100)).stop_loss

\* C22: a call for a position with a positive notional returns
\* profit_target > 0 and stop_loss < 0, whatever the volatility passed.
C22_Signs ==
    (ThresholdsCalled /\ calc.position.notional > 0) =>
        calc.result.profit_target > 0 /\ calc.result.stop_loss < 0


---------------------------------------------------------------------------
\* Properties of check_trading_signal, read off the last call

SignalCalled == calc.tool = "signal"

\* C23: the signal is CLOSE exactly when pnl >= threshold_profit or
\* pnl <= threshold_loss, HOLD exactly when threshold_loss < pnl <
\* threshold_profit, and never anything else.
C23_InclusiveBounds ==
    SignalCalled =>
        /\ calc.result.signal \in {"CLOSE", "HOLD"}
        /\ (calc.result.signal = "CLOSE") =
               (calc.pnl >= calc.threshold_profit \/ calc.pnl <= calc.threshold_loss)
        /\ (calc.result.signal = "HOLD") =
               (calc.threshold_loss < calc.pnl /\ calc.pnl < calc.threshold_profit)

\* a pnl exactly at the profit target and above the stop loss gives CLOSE
C23_Witness ==
    /\ SignalCalled
    /\ calc.pnl = calc.threshold_profit
    /\ calc.pnl > calc.threshold_loss
    /\ calc.result.signal = "CLOSE"

\* C24: pnl >= threshold_profit gives the profit-target CLOSE even when
\* pnl <= threshold_loss holds too; the stop-loss CLOSE is given only when
\* pnl < threshold_profit and pnl <= threshold_loss.
C24_ProfitFirst ==
    SignalCalled =>
        /\ (calc.pnl >= calc.threshold_profit) = (calc.result = ProfitSignal)
        /\ (calc.pnl < calc.threshold_profit /\ calc.pnl <= calc.threshold_loss)
               = (calc.result = LossSignal)

\* both tests hold, with the thresholds crossed, and the profit target wins
C24_Witness ==
    /\ SignalCalled
    /\ calc.pnl >= calc.threshold_profit
    /\ calc.pnl <= calc.threshold_loss
    /\ calc.result.reason = "Profit target hit"
    /\ calc.result.action = "Close position to lock in profit"


---------------------------------------------------------------------------
\* Properties of calculate_portfolio_dv01, read off the last call

PortfolioCalled == calc.tool = "portfolio"

\* notional * 0.0001 * years * direction_sign of one position at time t
SignedDv01(position, t) ==
    LET days == WholeDaysLeft(position, t)
        sign == IF position.pay_receive = "PAY_FIXED" THEN -1 ELSE 1
    IN  Rat(sign * position.notional * days * 4, 10000 * 1461)

\* the sum of the signed dv01 of the positions at the indices in I
RECURSIVE SumSignedDv01(_, _, _)
SumSignedDv01(positions, I, t) ==
    IF I = {} THEN RatInt(0)
    ELSE LET i == CHOOSE x \in I : \A y \in I : x >= y
         IN  RatAdd(SignedDv01(positions[i], t),
                    SumSignedDv01(positions, I \ {i}, t))

Occurrences(positions, p) ==
    Cardinality({i \in 1..Len(positions) : positions[i] = p})

IsPermutation(q, positions) ==
    /\ Len(q) = Len(positions)
    /\ \A p \in PortfolioPositions : Occurrences(q, p) = Occurrences(positions, p)

Matured(position, t) == strptime(position.maturity_date) <= t

Flipped(position) ==
    [position EXCEPT !.pay_receive = OppositeDirection(@)]

\* C25: the result is the sum of notional * 0.0001 * years * direction_sign
\* over the positions, to two decimals: 0 for the empty portfolio, the same
\* without the matured positions, the same for every order of the
\* positions, and the same with a position and its opposite added.
C25_PortfolioSum ==
    PortfolioCalled =>
        LET positions == calc.positions
            t == calc.at
        IN  /\ calc.result =
                   Round2(SumSignedDv01(positions, 1..Len(positions), t))
            /\ positions = <<>> => calc.result = 0
            /\ calc.result = calculate_portfolio_dv01(
                   SelectSeq(positions, LAMBDA p : ~Matured(p, t)), t)
            /\ \A q \in Portfolios :
                   IsPermutation(q, positions) =>
                       calculate_portfolio_dv01(q, t) = calc.result
            /\ \A p \in PortfolioPositions :
                   calculate_portfolio_dv01(positions \o <<p, Flipped(p)>>, t)
                       = calc.result

\* a position with time left and its opposite, together a total of 0
C25_Witness ==
    /\ PortfolioCalled
    /\ Len(calc.positions) = 2
    /\ calc.positions[2] = Flipped(calc.positions[1])
    /\ calculate_portfolio_dv01(<<calc.positions[1]>>, calc.at) # 0
    /\ calc.result = 0


---------------------------------------------------------------------------
\* Properties of update_log_timestamps, read off the last call: calc.before
\* holds the artifacts as the call found them, log_files as it left them

UpdaterCalled == calc.tool = "update_log_timestamps"

HasHeader(content) == content # <<>> /\ Head(content) = "Last run:"

\* what stands below the first line
Below(content) ==
    LET ends == {k \in 1..Len(content) : content[k] = NEWLINE}
    IN  IF ends = {} THEN <<>>
        ELSE LET first == CHOOSE k \in ends : \A m \in ends : k <= m
             IN  [i \in 1..(Len(content) - first) |-> content[first + i]]

\* the number of "Last run:" lines the content begins with
RECURSIVE LeadingHeaders(_)
LeadingHeaders(content) ==
    IF HasHeader(content) THEN 1 + LeadingHeaders(Below(content)) ELSE 0

\* what stands below the header, for a file that may have none
BodyOf(file) ==
    IF ~file.exists THEN <<>>
    ELSE IF HasHeader(file.content) THEN Below(file.content)
    ELSE file.content

\* C29: every artifact the call could write begins with exactly one
\* "Last run:" line, which carries the time of the call; what stands below
\* it is what stood below the header before, or the whole former content
\* when there was no header; and a further call leaves that body as it is.
C29_HeaderAndBody ==
    UpdaterCalled =>
        \A f \in LogFiles \ calc.failing :
            LET before == calc.before[f]
                after == log_files[f]
                again == update_log_timestamps(log_files,
                                               strftime(calc.at + TickHours), {})[f]
            IN  /\ after.exists
                /\ SubSeq(after.content, 1, 3) =
                       <<"Last run:", strftime(calc.at), NEWLINE>>
                /\ LeadingHeaders(after.content) = 1
                /\ Below(after.content) = BodyOf(before)
                /\ LeadingHeaders(again.content) = 1
                /\ Below(again.content) = Below(after.content)

\* an artifact that had a header of an earlier run above a text of several
\* lines has the header of this run above the same text
C29_Witness ==
    /\ UpdaterCalled
    /\ \E f \in LogFiles \ calc.failing :
         /\ calc.before[f].exists
         /\ HasHeader(calc.before[f].content)
         /\ calc.before[f].content[2] # strftime(calc.at)
         /\ log_files[f].content[2] = strftime(calc.at)
         /\ Len(Below(log_files[f].content)) > 1
         /\ Below(log_files[f].content) = Below(calc.before[f].content)


---------------------------------------------------------------------------
\* Properties of calculate_swap_pnl on dicts that lack keys

PnlOfDictCalled == calc.tool = "pnl of dict"

\* C27: a call on a dict that lacks a required key fails with a
\* ValidationError naming a missing key, returns nothing, and fails before
\* the calculation has been made; so too when the key is position_id.
C27_ValidationError ==
    (PnlOfDictCalled /\ calc.keys # PositionKeys) =>
        /\ calc.outcome.exc = "ValidationError"
        /\ calc.outcome.key \in PositionKeys \ calc.keys
        /\ ~calc.outcome.returned
        /\ ~calc.outcome.calculated

====
